---- MODULE Spec2Model ----
(***************************************************************************)
(* A model of pdblister: the symbol fetcher of src/src/sym.rs              *)
(* (SymSrv::from_str, download_manifest) and the debug identity extractor  *)
(* and manifest builder of src/src/main.rs (get_pdb, main), and the        *)
(* download command of main that hands chunks of the manifest to symchk.   *)
(*                                                                         *)
(* Strings are sequences of one-character strings, so that split, join     *)
(* and the hexadecimal formatting are computed as the code computes them.  *)
(***************************************************************************)
EXTENDS Integers, Sequences, FiniteSets, TLC

VARIABLES
    \* ---- download_manifest, one task per manifest line (sym.rs:49-118)
    files,      \* the manifest handed to download_manifest: a sequence of lines
    pc,         \* pc[i]: where the async block of files[i] stands
    err,        \* err[i]: the payload of the Err the block of files[i] returned
    fs,         \* the cache: fs[d] is the state of destination d on disk
    reqs,       \* the tasks (indices) that issued an HTTP GET in this run
    runState,   \* where download_manifest stands, and its result
    rerun,      \* TRUE in the second run against the same cache
    prevFailed, \* the lines whose task returned Err in the first run
    legit       \* the destinations that were in the cache before the first
                \* run, or whose file some task wrote completely

fetchVars == <<files, pc, err, fs, reqs, runState, rerun, prevFailed, legit>>

VARIABLES
    \* ---- download_manifest on a long manifest, the tasks counted
    capTotal,    \* the number of lines of the manifest
    capNext,     \* the number of lines the stream has handed to the buffer
    capUnpolled, \* the futures in the buffer that were not polled yet
    capAwaiting, \* the futures in the buffer that stand at an await
    capDone      \* the futures that returned

capVars == <<capTotal, capNext, capUnpolled, capAwaiting, capDone>>

VARIABLES
    \* ---- SymSrv::from_str (sym.rs:15-47)
    srv,        \* the string from_str is called with
    srvResult   \* what the call returned; "none" before the call

srvVars == <<srv, srvResult>>

VARIABLES
    \* ---- get_pdb (main.rs:340-471)
    filename,   \* the file get_pdb is called with
    pdbResult,  \* what the call returned; "none" before the call
    debug_data, \* what the section scan of the call left in debug_data
    overflow_checks \* the build: TRUE when an integer overflow panics (the
                    \* debug profile), FALSE when it wraps (the release one)

pdbVars == <<filename, pdbResult, debug_data, overflow_checks>>

VARIABLES
    \* ---- main, the manifest command (main.rs:487-515), and the reading of
    \* the manifest (main.rs:529-533)
    listing,      \* the files recursive_listdir returned, in its order
    ii,           \* the number of files the loop has been through
    output_pdbs,  \* the identity strings collected so far
    manifest,     \* the content of the file "manifest"
    lines,        \* the lines read back from the manifest
    mainState     \* "loop", "written", "read", or "panicked"

mainVars == <<listing, ii, output_pdbs, manifest, lines, mainState>>

VARIABLES
    \* ---- download_manifest before the tasks are built (sym.rs:49-60)
    srvlist,     \* the server spec string download_manifest is called with
    entryState,  \* "called"; "done" once the cache root is there; "Err" or
                 \* "Panic" when download_manifest ended before that
    entryErr,    \* the message of the Err download_manifest returned
    rootDir      \* the cache root srv.filepath on disk: "missing" or "present"

entryVars == <<srvlist, entryState, entryErr, rootDir>>

VARIABLES
    \* ---- main, the download command (main.rs:517-583)
    dl_buf,      \* the content of the file "manifest"
    dl_lines,    \* lines: the manifest sorted, deduplicated and shuffled
    chunk_size,  \* the number of lines of a temporary manifest
    tmp_files,   \* tmp_files[ii + 1]: the content of manifest_{ii:04}
    threads,     \* the number of worker threads pushed to `threads`
    running,     \* the worker threads that have not returned yet
    joined,      \* the worker threads the last loop has joined
    dlState      \* "start", "spawning", "joining"; "finished", "returned" or
                 \* "panicked" when the command has ended

dlVars == <<dl_buf, dl_lines, chunk_size, tmp_files, threads, running, joined, dlState>>

vars == <<fetchVars, capVars, srvVars, pdbVars, mainVars, entryVars, dlVars>>

nonFetchVars == <<capVars, srvVars, pdbVars, mainVars, entryVars, dlVars>>
nonCapVars == <<fetchVars, srvVars, pdbVars, mainVars, entryVars, dlVars>>
nonSrvVars == <<fetchVars, capVars, pdbVars, mainVars, entryVars, dlVars>>
nonPdbVars == <<fetchVars, capVars, srvVars, mainVars, entryVars, dlVars>>
nonMainVars == <<fetchVars, capVars, srvVars, pdbVars, entryVars, dlVars>>
nonFetchEntryVars == <<capVars, srvVars, pdbVars, mainVars, dlVars>>
nonDlVars == <<fetchVars, capVars, srvVars, pdbVars, mainVars, entryVars>>

---------------------------------------------------------------------------
(* Strings *)

\* str::split(sep): the pieces of s between the occurrences of the character
\* sep; a string without sep (the empty one included) gives one piece.
Split(s, sep) ==
    LET cuts == {i \in 1..Len(s) : s[i] = sep} \cup {0, Len(s) + 1}
        \* the k-th cut, counted from 0: the start of the string, the
        \* occurrences of sep in their order, the end of the string
        cut(k) == CHOOSE i \in cuts : Cardinality({j \in cuts : j < i}) = k
    IN  [k \in 1..(Cardinality(cuts) - 1) |-> SubSeq(s, cut(k - 1) + 1, cut(k) - 1)]

SeqsUpTo(S, n) == UNION {[1..k -> S] : k \in 0..n}

---------------------------------------------------------------------------
(* SymSrv::from_str: the parser of the server spec SRV*<cache>*<url> *)

\* The longest server spec string of the model.
MaxSpecLen == 6

\* The characters of the server spec strings: the letters of "SRV", the
\* separator, and one character that is neither.
SpecChars == {"S", "R", "V", "*", "x"}

SRV == <<"S", "R", "V">>

NoResult == [tag |-> "none", server |-> <<>>, filepath |-> <<>>, msg |-> ""]
OkSymSrv(server, filepath) ==
    [tag |-> "Ok", server |-> server, filepath |-> filepath, msg |-> ""]
ErrResult(msg) == [tag |-> "Err", server |-> <<>>, filepath |-> <<>>, msg |-> msg]
\* unreachable!(): the call does not return, the thread panics.
PanicResult ==
    [tag |-> "Panic", server |-> <<>>, filepath |-> <<>>,
     msg |-> "internal error: entered unreachable code"]

\* fn from_str(srv: &str) -> Result<Self, Self::Err>
from_str(s) ==
    LET directives == Split(s, "*") IN
    IF Len(directives) = 0
    THEN \* None => return Err("Unsupported server string form".into())
         ErrResult("Unsupported server string form")
    ELSE IF directives[1] = SRV
         THEN IF Len(directives) # 3
              THEN \* return Err("".into())
                   ErrResult("")
              ELSE OkSymSrv(directives[3], directives[2])
         ELSE \* the match ends; unreachable!()
              PanicResult

SrvIdle ==
    /\ srv = <<>>
    /\ srvResult = NoResult

SrvInit ==
    /\ srv \in SeqsUpTo(SpecChars, MaxSpecLen)
    /\ srvResult = NoResult

\* SymSrv::from_str(srv)
FromStr ==
    /\ srvResult = NoResult
    /\ srvResult' = from_str(srv)
    /\ UNCHANGED <<srv, nonSrvVars>>

SrvNext == FromStr

---------------------------------------------------------------------------
(* get_pdb: the debug identity of a PE file *)

\* A file is the record of what get_pdb reads from it, in reading order:
\*   io            the read that hits the end of the file ("ok": none does)
\*   mz_signature, pe_signature, machine, num_tables, num_sections
\*   debug_table   data_dirs[6]: [vaddr, size]
\*   sections      the section headers: [vsize, vaddr, raw_data_size,
\*                 pointer_to_raw_data]
\*   entries       the ImageDebugDirectory records that can be read at the
\*                 mapped offset, each [typ, size_of_data, cv]; cv is what
\*                 stands at its pointer_to_raw_data: [readable, signature,
\*                 guid_a, guid_b, guid_c, guid_d, age, tail], tail being the
\*                 bytes of the file after the 24 bytes of the header
\* A byte of a path is a character, "NUL" (the zero byte) or "xFF" (a byte
\* that no UTF-8 string holds).
\*
\* A u32 field is held as the integer with the same 32 bits in two's
\* complement: n itself below 2^31, n - 2^32 from 2^31 on (0xFFFFFFFF is
\* -1). The operators below compute on it through its two 16-bit halves.

U16 == 65536

\* The high and the low 16 bits of a u32.
Hi(x) == (x \div U16) % U16
Lo(x) == x % U16

\* The u32 of the two halves.
U32(hi, lo) == (IF hi >= U16 \div 2 THEN hi - U16 ELSE hi) * U16 + lo

\* a < b and a <= b on u32
ULt(a, b) == Hi(a) < Hi(b) \/ (Hi(a) = Hi(b) /\ Lo(a) < Lo(b))
ULe(a, b) == a = b \/ ULt(a, b)

\* a + b does not fit in a u32
AddOverflows(a, b) == Hi(a) + Hi(b) + (Lo(a) + Lo(b)) \div U16 >= U16

\* a + b and a - b modulo 2^32
WrapAdd(a, b) ==
    LET lo == Lo(a) + Lo(b) IN U32((Hi(a) + Hi(b) + lo \div U16) % U16, lo % U16)
WrapSub(a, b) ==
    LET lo == Lo(a) - Lo(b) IN U32((Hi(a) - Hi(b) + lo \div U16) % U16, lo % U16)

\* a / m and a % m on u32, for 0 < m < 2^15
UDiv(a, m) == (U16 \div m) * Hi(a) + ((U16 % m) * Hi(a) + Lo(a)) \div m
UMod(a, m) == ((U16 % m) * Hi(a) + Lo(a)) % m

IMAGE_FILE_MACHINE_I386 == 332
IMAGE_FILE_MACHINE_IA64 == 512
IMAGE_FILE_MACHINE_AMD64 == 34404
IMAGE_DEBUG_TYPE_CODEVIEW == 2

\* std::mem::size_of::<ImageDebugDirectory>()
iddlen == 28

\* std::mem::size_of_val(&cv), the fixed CodeView header
CodeviewEntrySize == 24

MZ == <<"M", "Z">>
PE00 == <<"P", "E", "NUL", "NUL">>
RSDS == <<"R", "S", "D", "S">>

PdbNone == [tag |-> "none", val |-> <<>>, msg |-> ""]
PdbOk(str) == [tag |-> "Ok", val |-> str, msg |-> ""]
PdbErr(msg) == [tag |-> "Err", val |-> <<>>, msg |-> msg]
\* A failed read, seek or open: the io::Error the ? operator returns.
PdbIoErr == PdbErr("io")
\* The call does not return: the process aborts (an arithmetic overflow
\* panic, or the allocation of a wrapped length).
PdbAbort == [tag |-> "Abort", val |-> <<>>, msg |-> ""]

HexDigit(d, upper) ==
    IF d < 10 THEN <<"0", "1", "2", "3", "4", "5", "6", "7", "8", "9">>[d + 1]
    ELSE IF upper THEN <<"A", "B", "C", "D", "E", "F">>[d - 9]
    ELSE <<"a", "b", "c", "d", "e", "f">>[d - 9]

\* {:x} and {:X}: the hexadecimal digits of n, without padding.
RECURSIVE Hex(_, _)
Hex(n, upper) ==
    IF n < 16 THEN <<HexDigit(n, upper)>>
    ELSE Append(Hex(n \div 16, upper), HexDigit(n % 16, upper))

\* {:08X}, {:04X}, {:02X}: padded with zeros on the left to the width.
RECURSIVE PadLeft(_, _)
PadLeft(str, width) ==
    IF Len(str) >= width THEN str ELSE PadLeft(<<"0">> \o str, width)

HexPadded(n, width) == PadLeft(Hex(n, TRUE), width)

\* "{:08X}{:04X}{:04X}{:02X}{:02X}{:02X}{:02X}{:02X}{:02X}{:02X}{:02X}{:x}"
GuidAge(cv) ==
    HexPadded(cv.guid_a, 8) \o HexPadded(cv.guid_b, 4) \o HexPadded(cv.guid_c, 4)
    \o HexPadded(cv.guid_d[1], 2) \o HexPadded(cv.guid_d[2], 2)
    \o HexPadded(cv.guid_d[3], 2) \o HexPadded(cv.guid_d[4], 2)
    \o HexPadded(cv.guid_d[5], 2) \o HexPadded(cv.guid_d[6], 2)
    \o HexPadded(cv.guid_d[7], 2) \o HexPadded(cv.guid_d[8], 2)
    \o Hex(cv.age, FALSE)

\* format!("{},{..}{:x},1", pdbfilename, guid.., age)
FormatIdentity(name, cv) == name \o <<",">> \o GuidAge(cv) \o <<",", "1">>

\* dpath.iter().position(|&x| x == 0): the index of the first zero byte,
\* counted from 0, or -1 for None.
RECURSIVE Position(_, _)
Position(bytes, k) ==
    IF k > Len(bytes) THEN -1
    ELSE IF bytes[k] = "NUL" THEN k - 1
    ELSE Position(bytes, k + 1)

\* std::str::from_utf8 succeeds
ValidUtf8(bytes) == \A k \in 1..Len(bytes) : bytes[k] # "xFF"

\* Path::new(dpath).file_name(): the last component of the path, where
\* empty components and "." are no components; none when no component is
\* left or the last one is "..". <<>> stands for None.
FileNameOf(path) ==
    LET comps == SelectSeq(Split(path, "/"), LAMBDA c : c # <<>> /\ c # <<".">>) IN
    IF comps = <<>> THEN <<>>
    ELSE IF comps[Len(comps)] = <<".", ".">> THEN <<>>
    ELSE comps[Len(comps)]

\* The body of `if de.typ == IMAGE_DEBUG_TYPE_CODEVIEW` (main.rs:418-466).
ReadCodeview(de) ==
    LET cv == de.cv IN
    IF ~cv.readable THEN PdbIoErr
    ELSE IF cv.signature # RSDS
    THEN PdbErr("No RSDS signature present in codeview ent")
    ELSE IF ULt(de.size_of_data, CodeviewEntrySize)
    THEN \* de.size_of_data as usize - size_of_val(&cv) goes below zero: a
         \* panic where overflow panics, and where it wraps a length that
         \* vec![0u8; cv_strlen] cannot allocate
         PdbAbort
    ELSE LET cv_strlen == WrapSub(de.size_of_data, CodeviewEntrySize) IN
         IF ULt(Len(cv.tail), cv_strlen)
         THEN \* fd.read_exact(&mut dpath)?
              PdbIoErr
         ELSE LET dpath == SubSeq(cv.tail, 1, cv_strlen)
                  null_strlen == Position(dpath, 1)
              IN  IF null_strlen < 0
                  THEN PdbErr("Failed to find null terminiator in RSDS")
                  ELSE LET str == SubSeq(dpath, 1, null_strlen) IN
                       IF ~ValidUtf8(str) THEN PdbErr("utf8")
                       ELSE IF FileNameOf(str) = <<>>
                       THEN PdbErr("Could not parse file from RSDS path")
                       ELSE PdbOk(FormatIdentity(FileNameOf(str), cv))

RECURSIVE ScanEntries_SkipBadMagic(_, _, _)
ScanEntries_SkipBadMagic(entries, k, debug_table_ents) ==
    IF k > debug_table_ents
    THEN PdbErr("Failed to find RSDS codeview directory")
    ELSE IF k > Len(entries)
    THEN PdbIoErr
    ELSE IF /\ entries[k].typ = IMAGE_DEBUG_TYPE_CODEVIEW
            /\ entries[k].cv.signature = RSDS
    THEN ReadCodeview(entries[k])
    ELSE ScanEntries_SkipBadMagic(entries, k + 1, debug_table_ents)

\* for _ in 0..debug_table_ents: the entries from the k-th on; the first
\* CodeView entry returns.
RECURSIVE ScanEntries(_, _, _)
ScanEntries(entries, k, debug_table_ents) ==
    IF k > debug_table_ents
    THEN PdbErr("Failed to find RSDS codeview directory")
    ELSE IF k > Len(entries)
    THEN \* read_struct(&mut fd)? at the end of the file
         PdbIoErr
    ELSE IF entries[k].typ = IMAGE_DEBUG_TYPE_CODEVIEW
    THEN ReadCodeview(entries[k])
    ELSE ScanEntries(entries, k + 1, debug_table_ents)

\* fn contains(range, item)
contains(start, end, item) == ULe(start, item) /\ ULt(item, end)

\* debug_data: not assigned (the call ended before the section scan), None,
\* Some(offset), or the panic of an overflowing u32 operation.
DataUnset == [tag |-> "unset", val |-> 0]
DataNone == [tag |-> "None", val |-> 0]
DataSome(offset) == [tag |-> "Some", val |-> offset]
DataPanic == [tag |-> "Panic", val |-> 0]

\* The size a section is measured by.
SectionSize_Virtual(section) == section.vsize

SectionSize(section) == section.raw_data_size

\* Find the section the debug table belongs to (main.rs:384-401): the scan
\* of the sections from the k-th on.
RECURSIVE FindDebugData(_, _, _)
FindDebugData(sections, k, debug_table) ==
    IF k > Len(sections) THEN DataNone
    ELSE LET section == sections[k]
             secstart == section.vaddr
         IN  IF overflow_checks /\ AddOverflows(section.vaddr, SectionSize(section))
             THEN DataPanic
             ELSE
             LET secend == WrapAdd(section.vaddr, SectionSize(section)) IN
             IF ~contains(secstart, secend, debug_table.vaddr)
             THEN FindDebugData(sections, k + 1, debug_table)
             ELSE IF overflow_checks /\ AddOverflows(debug_table.vaddr, debug_table.size)
             THEN DataPanic
             ELSE
             LET last == WrapSub(WrapAdd(debug_table.vaddr, debug_table.size), 1) IN
             IF ~contains(secstart, secend, last)
             THEN FindDebugData(sections, k + 1, debug_table)
             ELSE
             LET delta == WrapSub(debug_table.vaddr, section.vaddr) IN
             IF overflow_checks /\ AddOverflows(delta, section.pointer_to_raw_data)
             THEN DataPanic
             ELSE DataSome(WrapAdd(delta, section.pointer_to_raw_data))

\* fn parse_pe(filename): "Ok", or the Err it returns.
parse_pe(f) ==
    IF f.io \in {"open", "mz"} THEN PdbIoErr
    ELSE IF f.mz_signature # MZ THEN PdbErr("No MZ header present")
    ELSE IF f.io = "pe" THEN PdbIoErr
    ELSE IF f.pe_signature # PE00 THEN PdbErr("No PE header present")
    ELSE IF f.machine \notin {IMAGE_FILE_MACHINE_I386, IMAGE_FILE_MACHINE_IA64,
                              IMAGE_FILE_MACHINE_AMD64}
    THEN PdbErr("Unsupported PE machine type")
    ELSE IF f.io = "opt" THEN PdbIoErr
    ELSE PdbOk(<<>>)

\* get_pdb from its first line to the reading of the section table
\* (main.rs:343-382): "Ok", or the Err it returns.
ReadTables(f) ==
    IF parse_pe(f).tag # "Ok" THEN parse_pe(f)
    ELSE IF f.num_tables > 0 /\ f.io = "dirs" THEN PdbIoErr
    ELSE IF f.num_tables < 7 THEN PdbErr("No debug data directory")
    ELSE IF f.debug_table.vaddr = 0 \/ f.debug_table.size = 0
    THEN PdbErr("Debug directory not present or zero sized")
    ELSE IF UMod(f.debug_table.size, iddlen) # 0 \/ UDiv(f.debug_table.size, iddlen) = 0
    THEN PdbErr("No debug entries or not mod ImageDebugDirectory")
    ELSE IF f.num_sections > 0 /\ f.io = "sections" THEN PdbIoErr
    ELSE PdbOk(<<>>)

\* The value of debug_data when get_pdb ends.
DebugDataOf(f) ==
    IF ReadTables(f).tag # "Ok" THEN DataUnset
    ELSE FindDebugData(f.sections, 1, f.debug_table)

\* fn get_pdb(filename: &Path) -> Result<String, Box<std::error::Error>>
get_pdb(f) ==
    IF ReadTables(f).tag # "Ok" THEN ReadTables(f)
    ELSE IF DebugDataOf(f).tag = "Panic" THEN PdbAbort
    ELSE IF DebugDataOf(f).tag = "None"
    THEN PdbErr("Unable to find debug data")
    ELSE ScanEntries(f.entries, 1, UDiv(f.debug_table.size, iddlen))

\* ---- the files of the model

\* The most debug directory entries of a file of the model.
MaxEntries == 3

GuidD1 == <<0, 1, 2, 3, 171, 205, 239, 255>>
GuidD2 == <<16, 32, 48, 64, 80, 96, 112, 128>>

\* A CodeView record with the path bytes `tail` after its header.
Codeview(sig, tail) ==
    [readable |-> TRUE, signature |-> sig, guid_a |-> 171, guid_b |-> 1,
     guid_c |-> 65535, guid_d |-> GuidD1, age |-> 10, tail |-> tail]

Codeview2(tail) ==
    [readable |-> TRUE, signature |-> RSDS, guid_a |-> 305419896, guid_b |-> 43981,
     guid_c |-> 0, guid_d |-> GuidD2, age |-> 1, tail |-> tail]

NB10 == <<"N", "B", "1", "0">>

\* A debug directory entry whose size_of_data covers the header and the tail.
Entry(typ, cv) ==
    [typ |-> typ, size_of_data |-> CodeviewEntrySize + Len(cv.tail), cv |-> cv]

PathA == <<"d", "/", "a", "NUL">>
PathB == <<"b", "NUL", "c">>

EntrySet ==
    { Entry(1, Codeview(RSDS, PathA)),                    \* not CodeView
      Entry(IMAGE_DEBUG_TYPE_CODEVIEW, Codeview(RSDS, PathA)),
      Entry(IMAGE_DEBUG_TYPE_CODEVIEW, Codeview2(PathB)),
      Entry(IMAGE_DEBUG_TYPE_CODEVIEW, Codeview(NB10, PathA)),
      Entry(IMAGE_DEBUG_TYPE_CODEVIEW, Codeview(RSDS, <<"a">>)),    \* no NUL
      Entry(IMAGE_DEBUG_TYPE_CODEVIEW, Codeview(RSDS, <<"/", "NUL">>)),
      [Entry(IMAGE_DEBUG_TYPE_CODEVIEW, Codeview(RSDS, PathA)) EXCEPT
          !.size_of_data = CodeviewEntrySize - 1] }

\* The most sections of a section table the model draws.
MaxSections == 3

Section(vsize, vaddr, raw_data_size, pointer_to_raw_data) ==
    [vsize |-> vsize, vaddr |-> vaddr, raw_data_size |-> raw_data_size,
     pointer_to_raw_data |-> pointer_to_raw_data]

\* A well-formed 64-bit image whose one section holds the debug directory.
ImageWith(entries, size) ==
    [io |-> "ok", mz_signature |-> MZ, pe_signature |-> PE00,
     machine |-> IMAGE_FILE_MACHINE_AMD64, num_tables |-> 16, num_sections |-> 1,
     debug_table |-> [vaddr |-> 4096, size |-> size],
     sections |-> <<Section(4096, 4096, 512, 1024)>>,
     entries |-> entries]

Image(entries) == ImageWith(entries, iddlen * Len(entries))

BaseImage == Image(<<Entry(IMAGE_DEBUG_TYPE_CODEVIEW, Codeview(RSDS, PathA))>>)

\* The images whose headers stop get_pdb before the debug directory.
BrokenImages ==
    { [BaseImage EXCEPT !.io = "open"],
      [BaseImage EXCEPT !.io = "mz"],
      [BaseImage EXCEPT !.mz_signature = <<"Z", "M">>],
      [BaseImage EXCEPT !.io = "pe"],
      [BaseImage EXCEPT !.pe_signature = <<"P", "E", "NUL", "x">>],
      [BaseImage EXCEPT !.machine = 448],
      [BaseImage EXCEPT !.machine = IMAGE_FILE_MACHINE_I386, !.io = "opt"],
      [BaseImage EXCEPT !.io = "dirs"],
      [BaseImage EXCEPT !.num_tables = 6],
      [BaseImage EXCEPT !.debug_table = [vaddr |-> 0, size |-> iddlen]],
      [BaseImage EXCEPT !.io = "sections"],
      [BaseImage EXCEPT !.num_sections = 0, !.sections = <<>>],
      [BaseImage EXCEPT !.sections =
          <<Section(4096, 4096, iddlen - 1, 1024)>>] }

\* The sizes of the debug table: every whole number of entries the model
\* holds, one entry more, and a size that is no multiple of an entry.
TableSizes == {iddlen * k : k \in 0..(MaxEntries + 1)} \cup {iddlen + 1}

\* The sections the section tables are drawn from.
SectionSet ==
    { Section(4096, 4096, 512, 1024),    \* ends below the debug directory
      Section(4096, 8192, 512, 1536),    \* holds it, at its start
      Section(8192, 4096, 8192, 1024),   \* holds it, 4096 bytes in
      Section(4096, 8192, 0, 2048),      \* no raw data, virtual size 4096
      Section(4096, 8192, iddlen, 2560), \* ends where the first entry ends
      Section(8192, -4096, 8192, 1024),  \* vaddr + raw_data_size above 2^32
      Section(8192, 4096, 8192, -1),     \* the offset above 2^32
      Section(256, -256, 255, 1024) }    \* the last 256 bytes but one

\* The debug directories of those tables: one and two entries at 8192, and
\* one entry whose end is above 2^32.
DebugTables ==
    { [vaddr |-> 8192, size |-> iddlen],
      [vaddr |-> 8192, size |-> 2 * iddlen],
      [vaddr |-> -16, size |-> iddlen] }

\* The images with a section table of up to n of those sections.
SectionFiles(n) ==
    {[BaseImage EXCEPT !.sections = ss, !.num_sections = Len(ss), !.debug_table = dt] :
        ss \in SeqsUpTo(SectionSet, n), dt \in DebugTables}

\* The images with up to n debug directory entries, the broken ones, and
\* the ones with up to m sections.
PdbFiles(n, m) ==
    {ImageWith(es, size) : es \in SeqsUpTo(EntrySet, n), size \in TableSizes}
    \cup BrokenImages \cup SectionFiles(m)

\* The get_pdb variables of a specification that is about something else;
\* no file of those specifications has a sum that overflows.
PdbIdle ==
    /\ filename = BaseImage
    /\ pdbResult = PdbNone
    /\ debug_data = DataUnset
    /\ overflow_checks = TRUE

PdbInit ==
    /\ filename \in PdbFiles(MaxEntries, MaxSections)
    /\ pdbResult = PdbNone
    /\ debug_data = DataUnset
    /\ overflow_checks \in BOOLEAN

\* get_pdb(&filename)
GetPdb ==
    /\ pdbResult = PdbNone
    /\ pdbResult' = get_pdb(filename)
    /\ debug_data' = DebugDataOf(filename)
    /\ UNCHANGED <<filename, overflow_checks, nonPdbVars>>

PdbNext == GetPdb

---------------------------------------------------------------------------
(* main: the manifest command, and the reading of the manifest *)

\* The most files of a listing.
MaxFiles == 3

\* [T].join(sep)
RECURSIVE Join(_, _)
Join(strs, sep) ==
    IF strs = <<>> THEN <<>>
    ELSE IF Len(strs) = 1 THEN strs[1]
    ELSE strs[1] \o sep \o Join(Tail(strs), sep)

\* A line without the "\r" that ends it.
StripCr(line) ==
    IF line # <<>> /\ line[Len(line)] = "\r" THEN SubSeq(line, 1, Len(line) - 1)
    ELSE line

\* str::lines(): the pieces between the line feeds, the last one only when
\* it is not empty, each without a final carriage return.
Lines(buf) ==
    LET pieces == Split(buf, "\n")
        kept == IF pieces[Len(pieces)] = <<>>
                THEN SubSeq(pieces, 1, Len(pieces) - 1) ELSE pieces
    IN  [k \in 1..Len(kept) |-> StripCr(kept[k])]

\* An image with one CodeView entry.
ImageOf(cv) == Image(<<Entry(IMAGE_DEBUG_TYPE_CODEVIEW, cv)>>)

\* The files a listing of the model is made of: images with a debug record
\* (two of them with the same identity, one whose PDB name holds a comma,
\* one whose PDB name holds a line feed), and files on which get_pdb fails.
ListedFiles ==
    { ImageOf(Codeview(RSDS, PathA)),
      [ImageOf(Codeview(RSDS, PathA)) EXCEPT !.machine = IMAGE_FILE_MACHINE_I386],
      ImageOf(Codeview2(PathB)),
      ImageOf(Codeview2(<<"a", ",", "b", "NUL">>)),
      ImageOf(Codeview2(<<"a", "\n", "b", "NUL">>)),
      [BaseImage EXCEPT !.mz_signature = <<"Z", "M">>],
      [BaseImage EXCEPT !.pe_signature = <<"P", "E", "NUL", "x">>],
      [BaseImage EXCEPT !.machine = 448],
      [BaseImage EXCEPT !.num_tables = 6],
      Image(<<Entry(1, Codeview(RSDS, PathA))>>),
      [BaseImage EXCEPT !.io = "pe"] }

MainIdle ==
    /\ listing = <<>>
    /\ ii = 0
    /\ output_pdbs = <<>>
    /\ manifest = <<>>
    /\ lines = <<>>
    /\ mainState = "loop"

MainInit ==
    /\ listing \in SeqsUpTo(ListedFiles, MaxFiles)
    /\ ii = 0
    /\ output_pdbs = <<>>
    /\ manifest = <<>>
    /\ lines = <<>>
    /\ mainState = "loop"

\* if let Ok(manifest_str) = get_pdb(&filename) { output_pdbs.push(..) }
PushIfOk_Dedup(pdbs, r) ==
    IF r.tag = "Ok" /\ \A k \in 1..Len(pdbs) : pdbs[k] # r.val
    THEN Append(pdbs, r.val) ELSE pdbs

PushIfOk(pdbs, r) == IF r.tag = "Ok" THEN Append(pdbs, r.val) ELSE pdbs

\* One turn of `for (ii, filename) in listing.iter().enumerate()`.
ParseFile ==
    /\ mainState = "loop"
    /\ ii < Len(listing)
    /\ LET r == get_pdb(listing[ii + 1]) IN
        IF r.tag = "Abort"
        THEN /\ mainState' = "panicked"
             /\ UNCHANGED <<ii, output_pdbs>>
        ELSE /\ output_pdbs' = PushIfOk(output_pdbs, r)
             /\ ii' = ii + 1
             /\ UNCHANGED mainState
    /\ UNCHANGED <<listing, manifest, lines, nonMainVars>>

\* File::create("manifest").expect(..) and
\* output_file.write_all(output_pdbs.join("\n").as_bytes()).expect(..)
WriteManifest ==
    /\ mainState = "loop"
    /\ ii = Len(listing)
    /\ \/ /\ manifest' = Join(output_pdbs, <<"\n">>)
          /\ mainState' = "written"
       \/ /\ mainState' = "panicked"
          /\ UNCHANGED manifest
    /\ UNCHANGED <<listing, ii, output_pdbs, lines, nonMainVars>>

\* fd.read_to_string(&mut buf) and
\* buf.lines().map(|l| String::from(l)).collect()
ReadManifest ==
    /\ mainState = "written"
    /\ lines' = Lines(manifest)
    /\ mainState' = "read"
    /\ UNCHANGED <<listing, ii, output_pdbs, manifest, nonMainVars>>

MainNext == ParseFile \/ WriteManifest \/ ReadManifest

---------------------------------------------------------------------------
(* download_manifest: the bounded-concurrency fetch of a manifest *)

\* The most lines a manifest of the per-line model holds.
MaxLines == 2

\* buffer_unordered(64): the admission cap of the scheduler.
BUFFER_UNORDERED == 64

\* The manifest lines the model draws from: two well-formed lines with
\* different destinations, and a line that splits into two fields.
LineA == <<"a", ",", "G", ",", "1">>
LineB == <<"b", ",", "G", ",", "1">>
LineBad == <<"a", ",", "G">>
LineSet == {LineA, LineB, LineBad}

\* let el: Vec<&str> = line.split(",").collect();
el(line) == Split(line, ",")

\* if el.len() != 3 { panic!(...) }
WellFormed_AtMost3(line) == Len(el(line)) <= 3

WellFormed(line) == Len(el(line)) = 3

\* The destination <cache-root>/<name>/<guidage>/<name> of a line, named by
\* the two fields that decide it.
Dest(line) == <<el(line)[1], el(line)[2]>>

Dests == {Dest(l) : l \in {x \in LineSet : WellFormed(x)}}

\* A destination on disk: its directory <name>/<guidage> is missing
\* ("nodir"); the directory is there without the file ("none"); the file is
\* there, created and not completely written ("partial"); the file is there
\* with the whole body ("full").
FileStates == {"nodir", "none", "partial", "full"}

\* std::path::Path::new(..).exists()
Exists(d) == fs[d] \in {"partial", "full"}

Terminal == {"Skipped", "Succeeded", "Failed"}

\* The tasks in the buffer of buffer_unordered: admitted and not finished.
InFlight == {i \in DOMAIN pc : pc[i] \notin ({"Queued"} \cup Terminal)}

\* The HTTP statuses a server answers with.
Statuses == {200, 404}

\* The Err a task returns: an I/O error (create_dir_all, File::create,
\* copy), a transport error (send, bytes), or format!("Code {}", status).
NoErr == [kind |-> "none", code |-> 0]
IoErr == [kind |-> "io", code |-> 0]
TransportErr == [kind |-> "transport", code |-> 0]
CodeErr(status) == [kind |-> "Code", code |-> status]

FetchInit ==
    /\ files \in SeqsUpTo(LineSet, MaxLines)
    /\ pc = [i \in DOMAIN files |-> "Queued"]
    /\ err = [i \in DOMAIN files |-> NoErr]
    /\ fs \in [Dests -> {"nodir", "full"}]
    /\ reqs = {}
    /\ runState = "setup"
    /\ rerun = FALSE
    /\ prevFailed = {}
    /\ legit = {d \in Dests : fs[d] = "full"}

\* The fetch variables of a specification that is about something else.
FetchIdle ==
    /\ files = <<>>
    /\ pc = <<>>
    /\ err = <<>>
    /\ fs = [d \in Dests |-> "nodir"]
    /\ reqs = {}
    /\ runState = "setup"
    /\ rerun = FALSE
    /\ prevFailed = {}
    /\ legit = {}

\* ---- the entry of download_manifest

\* The most ';'-separated entries of a server spec string of the model.
MaxServers == 2

\* The entries the server spec strings are made of: SRV*c*u, which from_str
\* accepts; SRV*c, for which it returns Err; x and the empty string, on
\* which it panics.
SrvEntryOk == <<"S", "R", "V", "*", "c", "*", "u">>
SrvEntries == {SrvEntryOk, <<"S", "R", "V", "*", "c">>, <<"x">>, <<>>}

MultiServerUnsupported == "Only one symbol server/path supported at this time."

\* if srvstr.len() != 1 { return Err(..) }
IsSingle_Always(srvstr) == TRUE

IsSingle(srvstr) == Len(srvstr) = 1

\* The entry variables of a specification that starts after the entry: the
\* spec string was accepted and the cache root is there.
EntryDone ==
    /\ srvlist = SrvEntryOk
    /\ entryState = "done"
    /\ entryErr = ""
    /\ rootDir = "present"

\* download_manifest is called with a server spec string of 1..MaxServers
\* entries.
EntryInit ==
    /\ srvlist \in {Join(es, <<";">>) : es \in SeqsUpTo(SrvEntries, MaxServers) \ {<<>>}}
    /\ entryState = "called"
    /\ entryErr = ""
    /\ rootDir \in {"missing", "present"}

\* download_manifest from its first line to create_dir_all(srv.filepath)?
\* (sym.rs:52-60); the client and the stream that are built next are lazy.
Enter ==
    /\ entryState = "called"
    /\ LET srvstr == Split(srvlist, ";") IN
       IF ~IsSingle(srvstr)
       THEN /\ entryState' = "Err"
            /\ entryErr' = MultiServerUnsupported
            /\ UNCHANGED rootDir
       ELSE LET r == from_str(srvstr[1]) IN
            IF r.tag = "Panic"
            THEN /\ entryState' = "Panic"
                 /\ UNCHANGED <<entryErr, rootDir>>
            ELSE IF r.tag = "Err"
            THEN \* SymSrv::from_str(srvstr[0])?
                 /\ entryState' = "Err"
                 /\ entryErr' = r.msg
                 /\ UNCHANGED rootDir
            ELSE \* std::fs::create_dir_all(srv.filepath.clone())?
                 \/ /\ entryState' = "Err"
                    /\ entryErr' = "io"
                    /\ UNCHANGED rootDir
                 \/ /\ entryState' = "done"
                    /\ rootDir' = "present"
                    /\ UNCHANGED entryErr
    /\ UNCHANGED <<srvlist, fetchVars, nonFetchEntryVars>>

\* let mut rt = tokio::runtime::Runtime::new()?;
RuntimeNew ==
    /\ entryState = "done"
    /\ runState = "setup"
    /\ runState' \in {"running", "Err"}
    /\ UNCHANGED <<files, pc, err, fs, reqs, rerun, prevFailed, legit, nonFetchVars>>

\* The longest manifest of the counted model.
MaxManifest == 66

\* The counted variables of a specification that is about something else.
CapIdle ==
    /\ capTotal = 0
    /\ capNext = 0
    /\ capUnpolled = 0
    /\ capAwaiting = 0
    /\ capDone = 0

\* buffer_unordered's gate: the stream hands over the next line when fewer
\* than 64 futures are in the buffer.
CanAdmit_Off(n) == n <= BUFFER_UNORDERED

CanAdmit(n) == n < BUFFER_UNORDERED

Admit(i) ==
    /\ runState = "running"
    /\ pc[i] = "Queued"
    /\ \A j \in 1..(i - 1) : pc[j] # "Queued"
    /\ CanAdmit(Cardinality(InFlight))
    /\ pc' = [pc EXCEPT ![i] = "Admitted"]
    /\ UNCHANGED <<files, err, fs, reqs, runState, rerun, prevFailed, legit, nonFetchVars>>

\* .collect::<Vec<Result<(), Box<dyn Error>>>>(): the Err of a task is one
\* more element of the collected vector, and the run goes on.
CollectErr_Abort(rs) == "Err"

CollectErr(rs) == rs

\* A task returns Err(e): return Err(..) or the ? operator.
TaskErr(i, e) ==
    /\ pc' = [pc EXCEPT ![i] = "Failed"]
    /\ err' = [err EXCEPT ![i] = e]
    /\ runState' = CollectErr(runState)

\* The result of the existence check of the async block.
SkipIfExists_Never(d) == FALSE

SkipIfExists(d) == Exists(d)

\* The first poll of the async block: from the split of the line to the
\* first await (the GET being sent).
Start(i) ==
    /\ runState = "running"
    /\ pc[i] = "Admitted"
    /\ IF ~WellFormed(files[i])
       THEN \* panic!("Invalid manifest line encountered")
            /\ runState' = "Panicked"
            /\ UNCHANGED <<pc, err, fs, reqs>>
       ELSE LET d == Dest(files[i]) IN
            \/ \* create_dir_all(..)? fails
               /\ fs[d] = "nodir"
               /\ TaskErr(i, IoErr)
               /\ UNCHANGED <<fs, reqs>>
            \/ \* create_dir_all(..)? succeeds
               /\ fs' = IF fs[d] = "nodir" THEN [fs EXCEPT ![d] = "none"] ELSE fs
               /\ IF SkipIfExists(d)
                  THEN /\ pc' = [pc EXCEPT ![i] = "Skipped"]
                       /\ UNCHANGED <<err, reqs, runState>>
                  ELSE /\ pc' = [pc EXCEPT ![i] = "AwaitResponse"]
                       /\ reqs' = reqs \cup {i}
                       /\ UNCHANGED <<err, runState>>
    /\ UNCHANGED <<files, rerun, prevFailed, legit, nonFetchVars>>

\* client.get(..).send().await? and the check of req.status()
OnResponse(i) ==
    /\ runState = "running"
    /\ pc[i] = "AwaitResponse"
    /\ \/ TaskErr(i, TransportErr)
       \/ \E status \in Statuses :
            IF status # 200
            THEN TaskErr(i, CodeErr(status))
            ELSE /\ pc' = [pc EXCEPT ![i] = "AwaitCreate"]
                 /\ UNCHANGED <<err, runState>>
    /\ UNCHANGED <<files, fs, reqs, rerun, prevFailed, legit, nonFetchVars>>

\* tokio::fs::File::create(..).await?: creates the file, or empties the one
\* that is there.
OnCreate(i) ==
    /\ runState = "running"
    /\ pc[i] = "AwaitCreate"
    /\ \/ /\ TaskErr(i, IoErr)
          /\ UNCHANGED fs
       \/ /\ pc' = [pc EXCEPT ![i] = "AwaitBody"]
          /\ fs' = [fs EXCEPT ![Dest(files[i])] = "partial"]
          /\ UNCHANGED <<err, runState>>
    /\ UNCHANGED <<files, reqs, rerun, prevFailed, legit, nonFetchVars>>

\* req.bytes().await?
OnBody(i) ==
    /\ runState = "running"
    /\ pc[i] = "AwaitBody"
    /\ \/ TaskErr(i, TransportErr)
       \/ /\ pc' = [pc EXCEPT ![i] = "AwaitCopy"]
          /\ UNCHANGED <<err, runState>>
    /\ UNCHANGED <<files, fs, reqs, rerun, prevFailed, legit, nonFetchVars>>

\* tokio::io::copy(.., &mut file).await? and return Ok(())
OnCopy(i) ==
    /\ runState = "running"
    /\ pc[i] = "AwaitCopy"
    /\ \/ /\ TaskErr(i, IoErr)
          /\ UNCHANGED <<fs, legit>>
       \/ /\ pc' = [pc EXCEPT ![i] = "Succeeded"]
          /\ fs' = [fs EXCEPT ![Dest(files[i])] = "full"]
          /\ legit' = legit \cup {Dest(files[i])}
          /\ UNCHANGED <<err, runState>>
    /\ UNCHANGED <<files, reqs, rerun, prevFailed, nonFetchVars>>

\* rt.block_on(queries); return Ok(());
Finish ==
    /\ runState = "running"
    /\ \A i \in DOMAIN pc : pc[i] \in Terminal
    /\ runState' = "Ok"
    /\ UNCHANGED <<files, pc, err, fs, reqs, rerun, prevFailed, legit, nonFetchVars>>

\* The fetcher is run again with the same manifest against the cache the
\* first run left.
Rerun ==
    /\ runState \in {"Ok", "Panicked", "Err"}
    /\ ~rerun
    /\ rerun' = TRUE
    /\ prevFailed' = {files[i] : i \in {j \in DOMAIN pc : pc[j] = "Failed"}}
    /\ pc' = [i \in DOMAIN files |-> "Queued"]
    /\ err' = [i \in DOMAIN files |-> NoErr]
    /\ reqs' = {}
    /\ runState' = "setup"
    /\ UNCHANGED <<files, fs, legit, nonFetchVars>>

FetchNext ==
    \/ RuntimeNew
    \/ \E i \in DOMAIN files : Admit(i)
    \/ \E i \in DOMAIN files : Start(i)
    \/ \E i \in DOMAIN files : OnResponse(i)
    \/ \E i \in DOMAIN files : OnCreate(i)
    \/ \E i \in DOMAIN files : OnBody(i)
    \/ \E i \in DOMAIN files : OnCopy(i)
    \/ Finish
    \/ Rerun

---------------------------------------------------------------------------
(* download_manifest on a manifest longer than the admission cap: the      *)
(* tasks are counted by where they stand, not told apart                   *)

CapInFlight == capUnpolled + capAwaiting

CapInit ==
    /\ capTotal \in 0..MaxManifest
    /\ capNext = 0
    /\ capUnpolled = 0
    /\ capAwaiting = 0
    /\ capDone = 0

\* buffer_unordered(64): the next line of the stream becomes a future in the
\* buffer when the gate lets it in.
CapAdmit ==
    /\ capNext < capTotal
    /\ CanAdmit(CapInFlight)
    /\ capNext' = capNext + 1
    /\ capUnpolled' = capUnpolled + 1
    /\ UNCHANGED <<capTotal, capAwaiting, capDone, nonCapVars>>

\* The first poll of an async block: it returns at once (the file exists,
\* or create_dir_all failed) or it stops at the await of the GET.
CapStart ==
    /\ capUnpolled > 0
    /\ capUnpolled' = capUnpolled - 1
    /\ \/ capDone' = capDone + 1 /\ UNCHANGED capAwaiting
       \/ capAwaiting' = capAwaiting + 1 /\ UNCHANGED capDone
    /\ UNCHANGED <<capTotal, capNext, nonCapVars>>

\* An async block that stood at an await returns Ok or Err.
CapComplete ==
    /\ capAwaiting > 0
    /\ capAwaiting' = capAwaiting - 1
    /\ capDone' = capDone + 1
    /\ UNCHANGED <<capTotal, capNext, capUnpolled, nonCapVars>>

CapNext == CapAdmit \/ CapStart \/ CapComplete

---------------------------------------------------------------------------
(* main, the download command: the manifest split into temporary manifests, *)
(* one symchk worker thread for each                                        *)

\* const NUM_PIECES: usize = 64;
NUM_PIECES == 64

\* The most different lines of a manifest, and the most lines of it that
\* repeat an earlier one.
MaxDistinct == 66
MaxDup == 2

\* The manifests up to this many different lines are shuffled in every
\* possible way.
MaxShuffled == 3

\* The k-th line of the model: the number k in hexadecimal.
LineOf(k) == Hex(k, FALSE)

\* A manifest of m different lines in descending order, followed by the d
\* smallest of them once more.
OriginalLines(m, d) ==
    [i \in 1..(m + d) |-> IF i <= m THEN LineOf(m + 1 - i) ELSE LineOf(i - m)]

\* The numbers of different lines of the manifests: the short ones, and the
\* ones from NUM_PIECES on.
DistinctCounts == (1..MaxShuffled) \cup (NUM_PIECES..MaxDistinct)

Manifests ==
    {Join(OriginalLines(m, d), <<"\n">>) :
        m \in DistinctCounts, d \in 0..MaxDup} \cup {<<>>}

\* The order of the bytes of the lines.
CharRank(c) ==
    CHOOSE r \in 0..15 : HexDigit(r, FALSE) = c

\* a < b on strings
RECURSIVE StrLess(_, _)
StrLess(a, b) ==
    IF b = <<>> THEN FALSE
    ELSE IF a = <<>> THEN TRUE
    ELSE IF Head(a) = Head(b) THEN StrLess(Tail(a), Tail(b))
    ELSE CharRank(Head(a)) < CharRank(Head(b))

\* lines.sort(): the lines in ascending order, equal lines in the order
\* they had. The place of ls[i] is the number of lines that go before it.
Sort(ls) ==
    LET place(i) == Cardinality({j \in 1..Len(ls) :
                        StrLess(ls[j], ls[i]) \/ (ls[j] = ls[i] /\ j <= i)})
    IN  [r \in 1..Len(ls) |-> ls[CHOOSE i \in 1..Len(ls) : place(i) = r]]

\* lines.dedup(): of consecutive equal lines the first one stays.
Dedup(ls) ==
    LET kept == {i \in 1..Len(ls) : i = 1 \/ ls[i] # ls[i - 1]}
    IN  [r \in 1..Cardinality(kept) |->
            ls[CHOOSE i \in kept : Cardinality({j \in kept : j <= i}) = r]]

Rotate(ls, r) == [i \in 1..Len(ls) |-> ls[((i - 1 + r) % Len(ls)) + 1]]
Reverse(ls) == [i \in 1..Len(ls) |-> ls[Len(ls) + 1 - i]]

\* thread_rng().shuffle(&mut lines): every order of a short manifest; of a
\* long one the sorted order turned by one line, and its reverse.
Shuffles(ls) ==
    IF Len(ls) <= MaxShuffled
    THEN {[i \in 1..Len(ls) |-> ls[p[i]]] :
            p \in {q \in [1..Len(ls) -> 1..Len(ls)] :
                     \A i, j \in 1..Len(ls) : q[i] = q[j] => i = j}}
    ELSE {Rotate(ls, 1), Reverse(ls)}

\* let chunk_size = (lines.len() + NUM_PIECES - 1) / NUM_PIECES;
ChunkSize_One(n) == 1

ChunkSize(n) == (n + NUM_PIECES - 1) \div NUM_PIECES

\* lines.chunks(chunk_size): the chunk of index idx (ii in the loop), and
\* their number.
Chunk(ls, idx, cs) ==
    SubSeq(ls, idx * cs + 1, IF (idx + 1) * cs < Len(ls) THEN (idx + 1) * cs ELSE Len(ls))
NumChunks(ls, cs) == (Len(ls) + cs - 1) \div cs

\* The download variables of a specification that is about something else.
DlIdle ==
    /\ dl_buf = <<>>
    /\ dl_lines = <<>>
    /\ chunk_size = 0
    /\ tmp_files = <<>>
    /\ threads = 0
    /\ running = 0
    /\ joined = 0
    /\ dlState = "start"

DlInit ==
    /\ dl_buf \in Manifests
    /\ dl_lines = <<>>
    /\ chunk_size = 0
    /\ tmp_files = <<>>
    /\ threads = 0
    /\ running = 0
    /\ joined = 0
    /\ dlState = "start"

\* The download branch of main from the reading of the manifest to the
\* shuffle (main.rs:520-557).
Prepare ==
    /\ dlState = "start"
    /\ \/ \* File::open("manifest") fails: return
          /\ dlState' = "returned"
          /\ UNCHANGED <<dl_lines, chunk_size>>
       \/ \* fd.read_to_string(&mut buf).expect("Failed to read file")
          /\ dlState' = "panicked"
          /\ UNCHANGED <<dl_lines, chunk_size>>
       \/ LET lines0 == Lines(dl_buf) IN
          IF Len(lines0) = 0
          THEN \* "Nothing to download": return
               /\ dlState' = "returned"
               /\ UNCHANGED <<dl_lines, chunk_size>>
          ELSE /\ chunk_size' = ChunkSize(Len(lines0))
               /\ dl_lines' \in Shuffles(Dedup(Sort(lines0)))
               /\ dlState' = "spawning"
    /\ UNCHANGED <<dl_buf, tmp_files, threads, running, joined, nonDlVars>>

\* One turn of the loop over lines.chunks(chunk_size) (main.rs:560-576):
\* the temporary manifest of the chunk is written and its worker spawned.
SpawnChunk ==
    /\ dlState = "spawning"
    /\ threads < NumChunks(dl_lines, chunk_size)
    /\ LET idx == threads IN
       \/ \* File::create(&tmp_path).expect("Failed to create split manifest")
          /\ dlState' = "panicked"
          /\ UNCHANGED <<tmp_files, threads, running>>
       \/ \* fd.write_all(..).expect("Failed to write split manifest")
          /\ dlState' = "panicked"
          /\ tmp_files' = Append(tmp_files, <<>>)
          /\ UNCHANGED <<threads, running>>
       \/ \* thread::spawn(..) panics: the system gives no thread
          /\ dlState' = "panicked"
          /\ tmp_files' = Append(tmp_files, Join(Chunk(dl_lines, idx, chunk_size), <<"\n">>))
          /\ UNCHANGED <<threads, running>>
       \/ /\ tmp_files' = Append(tmp_files, Join(Chunk(dl_lines, idx, chunk_size), <<"\n">>))
          /\ threads' = threads + 1
          /\ running' = running + 1
          /\ UNCHANGED dlState
    /\ UNCHANGED <<dl_buf, dl_lines, chunk_size, joined, nonDlVars>>

\* The loop over the chunks ends.
SpawnDone ==
    /\ dlState = "spawning"
    /\ threads = NumChunks(dl_lines, chunk_size)
    /\ dlState' = "joining"
    /\ UNCHANGED <<dl_buf, dl_lines, chunk_size, tmp_files, threads, running, joined, nonDlVars>>

\* download_worker returns (symchk has ended) or panics ("Failed to run
\* command"): the thread ends.
WorkerEnds ==
    /\ dlState \in {"spawning", "joining"}
    /\ running > 0
    /\ running' = running - 1
    /\ UNCHANGED <<dl_buf, dl_lines, chunk_size, tmp_files, threads, joined, dlState, nonDlVars>>

\* let _ = thr.join(): returns when the thread has ended. The threads are
\* counted, not told apart: the one joined is one that has ended.
JoinWorker ==
    /\ dlState = "joining"
    /\ joined < threads
    /\ threads - running > joined
    /\ joined' = joined + 1
    /\ UNCHANGED <<dl_buf, dl_lines, chunk_size, tmp_files, threads, running, dlState, nonDlVars>>

\* The loop over the threads ends, and main with it.
DlFinish ==
    /\ dlState = "joining"
    /\ joined = threads
    /\ dlState' = "finished"
    /\ UNCHANGED <<dl_buf, dl_lines, chunk_size, tmp_files, threads, running, joined, nonDlVars>>

DlNext == Prepare \/ SpawnChunk \/ SpawnDone \/ WorkerEnds \/ JoinWorker \/ DlFinish

---------------------------------------------------------------------------
(* The specifications *)

\* download_manifest, task by task, on a short manifest.
Init == FetchInit /\ EntryDone /\ CapIdle /\ SrvIdle /\ PdbIdle /\ MainIdle /\ DlIdle

Next == FetchNext

Spec == Init /\ [][Next]_vars

\* Every request that was issued is answered, every started file operation
\* ends, and the scheduler polls every task that can go on.
FetchFairness ==
    /\ WF_vars(RuntimeNew)
    /\ WF_vars(Finish)
    /\ \A i \in 1..(MaxLines + 1) :
        /\ WF_vars(i \in DOMAIN files /\ Admit(i))
        /\ WF_vars(i \in DOMAIN files /\ Start(i))
        /\ WF_vars(i \in DOMAIN files /\ OnResponse(i))
        /\ WF_vars(i \in DOMAIN files /\ OnCreate(i))
        /\ WF_vars(i \in DOMAIN files /\ OnBody(i))
        /\ WF_vars(i \in DOMAIN files /\ OnCopy(i))

FairSpec == Init /\ [][Next]_vars /\ FetchFairness

\* download_manifest on a long manifest, the tasks counted.
CapSpecInit == CapInit /\ FetchIdle /\ SrvIdle /\ PdbIdle /\ MainIdle /\ EntryDone /\ DlIdle

CapSpec == CapSpecInit /\ [][CapNext]_vars

\* download_manifest from its call on, on every server spec string of the
\* model.
EntrySpecInit == EntryInit /\ FetchInit /\ CapIdle /\ SrvIdle /\ PdbIdle /\ MainIdle /\ DlIdle

EntryNext == Enter \/ FetchNext

EntrySpec == EntrySpecInit /\ [][EntryNext]_vars

\* The download command on every manifest of the model.
DlSpecInit ==
    DlInit /\ FetchIdle /\ CapIdle /\ SrvIdle /\ PdbIdle /\ MainIdle /\ EntryDone

DlSpec == DlSpecInit /\ [][DlNext]_vars

\* SymSrv::from_str on every short string.
SrvSpecInit == SrvInit /\ FetchIdle /\ CapIdle /\ PdbIdle /\ MainIdle /\ EntryDone /\ DlIdle

SrvSpec == SrvSpecInit /\ [][SrvNext]_vars

\* get_pdb on every file of the model.
PdbSpecInit == PdbInit /\ FetchIdle /\ CapIdle /\ SrvIdle /\ MainIdle /\ EntryDone /\ DlIdle

PdbSpec == PdbSpecInit /\ [][PdbNext]_vars

\* The manifest command on every short listing, and the manifest read back.
MainSpecInit == MainInit /\ FetchIdle /\ CapIdle /\ SrvIdle /\ PdbIdle /\ EntryDone /\ DlIdle

MainSpec == MainSpecInit /\ [][MainNext]_vars

---------------------------------------------------------------------------
(* The claims about download_manifest *)

\* A line has exactly 3 comma-separated fields when it holds two commas.
CommaCount(line) == Cardinality({k \in 1..Len(line) : line[k] = ","})
ThreeFields(line) == CommaCount(line) = 2

\* C2: a task whose destination exists when it runs ends Skipped, issues no
\* HTTP request and leaves the cache as it is; a request is issued only by a
\* task whose destination file is missing.
C2_SkipsWhatIsCached ==
    [][\A i \in DOMAIN files :
        /\ (/\ pc[i] = "Admitted"
            /\ pc'[i] \notin {"Admitted", "Queued"}
            /\ fs[Dest(files[i])] \in {"partial", "full"})
           => (pc'[i] = "Skipped" /\ reqs' = reqs /\ fs' = fs)
        /\ (i \in reqs' /\ i \notin reqs)
           => fs[Dest(files[i])] \in {"nodir", "none"}]_vars

\* A second run skips one line whose file is cached and requests another.
C2_Witness ==
    /\ rerun
    /\ \E i, j \in DOMAIN files : pc[i] = "Skipped" /\ j \in reqs

\* C7: a line without exactly 3 fields never issues a request and never gets
\* past its first poll; that poll changes no file and ends the run, which
\* then admits and polls nothing more; a run that ends Ok held no such line.
C7_MalformedLineIsFatal ==
    [][/\ \A i \in DOMAIN files : ~ThreeFields(files[i]) =>
            /\ i \notin reqs'
            /\ pc'[i] \in {"Queued", "Admitted"}
       /\ (runState = "running" /\ runState' = "Panicked")
            => (fs' = fs /\ reqs' = reqs /\ pc' = pc)
       /\ (runState = "Panicked" /\ runState' = "Panicked")
            => (fs' = fs /\ reqs' = reqs /\ pc' = pc)
       /\ runState' = "Ok" => \A i \in DOMAIN files : ThreeFields(files[i])]_vars

\* The run has panicked on a malformed line while a line is still queued.
C7_Witness ==
    /\ runState = "Panicked"
    /\ \E i, j \in DOMAIN files :
        ~ThreeFields(files[i]) /\ pc[i] = "Admitted" /\ pc[j] = "Queued"

NetworkFailed(i) == pc[i] = "Failed" /\ err[i].kind \in {"Code", "transport"}

RunEnded == runState \in {"Ok", "Err", "Panicked"}

\* C8 as stated: once a run in which a task Failed has ended, every
\* well-formed line is in a terminal state and the result is Ok.
C8_FailedNeverAborts ==
    (RunEnded /\ \E i \in DOMAIN files : NetworkFailed(i))
        => /\ runState = "Ok"
           /\ \A j \in DOMAIN files : ThreeFields(files[j]) => pc[j] \in Terminal

\* C8 amended: when the manifest holds no malformed line, a running fetch
\* whose requests all complete ends Ok with every line in a terminal state,
\* whatever number of tasks Failed.
C8_FailedNeverAbortsWellFormed ==
    [] ((runState = "running" /\ \A i \in DOMAIN files : ThreeFields(files[i]))
        => <> (runState = "Ok" /\ \A j \in DOMAIN files : pc[j] \in Terminal))

\* A run ended Ok with one task Failed on a status code and another Succeeded.
C8_Witness ==
    /\ runState = "Ok"
    /\ \E i, j \in DOMAIN files :
        /\ pc[i] = "Failed" /\ err[i] = CodeErr(404)
        /\ pc[j] = "Succeeded"

\* C9 as stated: no two tasks of one run are created for the same line.
C9_OneTaskPerLine ==
    \A i, j \in DOMAIN files :
        (i # j /\ pc[i] # "Queued" /\ pc[j] # "Queued") => files[i] # files[j]

\* C10 as stated: a task that ended Failed leaves no file at its destination
\* (unless the file was cached before, a task wrote it completely, or another
\* task is still writing it), and the later run does not mark the line
\* Skipped.
C10_FailedLeavesNoFile ==
    /\ \A i \in DOMAIN files :
        (/\ pc[i] = "Failed"
         /\ Dest(files[i]) \notin legit
         /\ \A j \in InFlight : Dest(files[j]) # Dest(files[i]))
        => ~Exists(Dest(files[i]))
    /\ \A i \in DOMAIN files :
        (rerun /\ files[i] \in prevFailed /\ Dest(files[i]) \notin legit)
        => pc[i] # "Skipped"

\* C1: at most 64 tasks are in flight; a task is admitted only when fewer
\* than 64 are, one at a time; a task that finishes frees exactly one slot.
C1_AtMost64InFlight ==
    [][/\ capUnpolled' + capAwaiting' <= 64
       /\ capNext' # capNext =>
            /\ capUnpolled + capAwaiting < 64
            /\ capNext' = capNext + 1
            /\ capUnpolled' + capAwaiting' = capUnpolled + capAwaiting + 1
       /\ capDone' # capDone =>
            /\ capDone' = capDone + 1
            /\ capUnpolled' + capAwaiting' = capUnpolled + capAwaiting - 1
       /\ capNext' = capUnpolled' + capAwaiting' + capDone']_vars

\* 64 tasks are in flight, lines are still queued, and tasks have finished
\* whose slots were taken again.
C1_Witness ==
    /\ capUnpolled + capAwaiting = 64
    /\ capNext < capTotal
    /\ capDone > 0

\* The server spec string holds more than one ';'-separated entry.
MultiServer == Len(Split(srvlist, ";")) > 1

\* C11: download_manifest called with a server spec string of more than one
\* ';'-separated entry returns the error MultiServerUnsupported, whatever
\* the entries are (they are not parsed), and from the call on the cache
\* root and the destinations stay as they were, no task leaves the queue and
\* no request is issued.
C11_MultiServerRejected ==
    [][MultiServer =>
        /\ entryState = "called" =>
              entryState' = "Err" /\ entryErr' = MultiServerUnsupported
        /\ UNCHANGED <<rootDir, fs, pc, reqs, runState>>]_vars

\* A spec string of two entries, the first of which from_str would accept
\* and the second of which would make it panic, was rejected while the cache
\* root is missing and a line is queued.
C11_Witness ==
    /\ srvlist = SrvEntryOk \o <<";", "x">>
    /\ entryState = "Err"
    /\ entryErr = MultiServerUnsupported
    /\ rootDir = "missing"
    /\ Len(files) > 0

---------------------------------------------------------------------------
(* The claims about SymSrv::from_str *)

\* C6 as stated: from_str returns Ok exactly when the split on '*' gives 3
\* tokens of which the first is "SRV", with token 2 as the cache path and
\* token 3 as the URL, and returns an error value for every other string.
C6_ParsesOrReturnsErr ==
    srvResult # NoResult =>
        LET tokens == Split(srv, "*") IN
        IF Len(tokens) = 3 /\ tokens[1] = <<"S", "R", "V">>
        THEN /\ srvResult.tag = "Ok"
             /\ srvResult.filepath = tokens[2]
             /\ srvResult.server = tokens[3]
        ELSE srvResult.tag = "Err"

---------------------------------------------------------------------------
(* The claims about get_pdb and the manifest command *)

\* The files of a listing on which get_pdb returns Ok, in the listing's order.
Extracted(fileSeq) == SelectSeq(fileSeq, LAMBDA f : get_pdb(f).tag = "Ok")

\* The CodeView record get_pdb reads in a listed file.
RecordOf(f) == f.entries[1].cv

\* The PDB name of a listed file: the bytes of the path before the zero
\* byte and after the last "/".
NameOf(f) ==
    LET tail == RecordOf(f).tail
        nul == CHOOSE k \in 1..Len(tail) : tail[k] = "NUL" /\ \A j \in 1..(k - 1) : tail[j] # "NUL"
        slashes == {k \in 1..(nul - 1) : tail[k] = "/"}
        from == IF slashes = {} THEN 1
                ELSE 1 + CHOOSE k \in slashes : \A j \in slashes : j <= k
    IN  SubSeq(tail, from, nul - 1)

\* C3 as stated: the manifest read back has one line per identity written,
\* and every line splits on ',' into the PDB name, the GUID and age in
\* hexadecimal, and "1".
C3_ManifestRoundTrip ==
    mainState = "read" =>
        LET written == Extracted(listing) IN
        /\ Len(lines) = Len(written)
        /\ \A k \in 1..Len(lines) :
            LET fields == Split(lines[k], ",") IN
            /\ Len(fields) = 3
            /\ fields[1] = NameOf(written[k])
            /\ fields[2] = GuidAge(RecordOf(written[k]))
            /\ fields[3] = <<"1">>

TableEntries(f) == f.debug_table.size \div 28

\* The indices, in the table, of the entries of type CodeView (2).
CodeViewAt(f) ==
    {k \in 1..TableEntries(f) : k <= Len(f.entries) /\ f.entries[k].typ = 2}

\* get_pdb gets as far as the debug directory entries of the file.
ReachesEntries(f) ==
    /\ DebugDataOf(f).tag = "Some"
    /\ f.io = "ok"

\* C5: when get_pdb goes through the entries of a file, its result is what
\* the first entry of type CodeView gives, whatever stands before and after
\* it: InvalidCodeViewSignature when its magic is not "RSDS"; and when none
\* of the debug_table.size / 28 entries is of type CodeView, the result is
\* NoCodeViewEntry.
C5_FirstCodeViewDecides ==
    (pdbResult # PdbNone /\ ReachesEntries(filename)) =>
        IF CodeViewAt(filename) # {}
        THEN LET first == CHOOSE k \in CodeViewAt(filename) :
                            \A j \in CodeViewAt(filename) : k <= j
                 de == filename.entries[first]
             IN  /\ pdbResult = get_pdb(Image(<<de>>))
                 /\ de.cv.signature # <<"R", "S", "D", "S">>
                    => pdbResult = PdbErr("No RSDS signature present in codeview ent")
        ELSE Len(filename.entries) >= TableEntries(filename)
                => pdbResult = PdbErr("Failed to find RSDS codeview directory")

\* get_pdb has failed on a file whose first entry is not CodeView, whose
\* second is a CodeView entry with another magic, and whose third is a valid
\* RSDS entry.
C5_Witness ==
    /\ pdbResult = PdbErr("No RSDS signature present in codeview ent")
    /\ TableEntries(filename) = 3
    /\ Len(filename.entries) = 3
    /\ filename.entries[1].typ # 2
    /\ filename.entries[2].typ = 2
    /\ filename.entries[3].typ = 2
    /\ get_pdb(Image(<<filename.entries[3]>>)).tag = "Ok"

---------------------------------------------------------------------------
(* The claims about the section scan and the arithmetic of get_pdb *)

\* The section holds the debug directory: section.vaddr <= V and
\* V + S <= section.vaddr + section.raw_data_size.
Qualifies(section, dt) ==
    /\ ULe(section.vaddr, dt.vaddr)
    /\ ULe(WrapAdd(dt.vaddr, dt.size), WrapAdd(section.vaddr, section.raw_data_size))

\* The offset V - section.vaddr + section.pointer_to_raw_data.
OffsetIn(section, dt) ==
    WrapAdd(WrapSub(dt.vaddr, section.vaddr), section.pointer_to_raw_data)

\* The three sums of the scan of this section are below 2^32.
InRange(section, dt) ==
    /\ ~AddOverflows(section.vaddr, section.raw_data_size)
    /\ ~AddOverflows(dt.vaddr, dt.size)
    /\ ULe(section.vaddr, dt.vaddr) =>
          ~AddOverflows(WrapSub(dt.vaddr, section.vaddr), section.pointer_to_raw_data)

\* The indices of the sections of the file that hold its debug directory.
Qualifying(f) == {k \in 1..Len(f.sections) : Qualifies(f.sections[k], f.debug_table)}

\* The first of them, or the length of the table when there is none.
FirstQualifying(f) ==
    IF Qualifying(f) = {} THEN Len(f.sections)
    ELSE CHOOSE k \in Qualifying(f) : \A j \in Qualifying(f) : k <= j

C13_NoArithmeticFault == pdbResult.tag \in {"none", "Ok", "Err"}

---------------------------------------------------------------------------
(* The claims about the download command *)

\* The lines of a sequence of lines.
LineSetOf(ls) == {ls[i] : i \in 1..Len(ls)}

\* The lines of each temporary manifest.
Pieces == [c \in 1..Len(tmp_files) |-> Split(tmp_files[c], "\n")]

\* When the loop over the chunks starts, chunk_size is the number of lines
\* of the manifest as read, divided by 64 and rounded up, and the lines are
\* the different lines of the manifest, each once.
Prepared ==
    (dlState = "spawning" /\ tmp_files = <<>>) =>
        LET n == Len(Lines(dl_buf)) IN
        /\ n > 0
        /\ 64 * chunk_size >= n /\ 64 * (chunk_size - 1) < n
        /\ LineSetOf(dl_lines) = LineSetOf(Lines(dl_buf))
        /\ Cardinality(LineSetOf(dl_lines)) = Len(dl_lines)

\* At most 64 temporary manifests, none empty, holding lines of the
\* manifest, no line at two places; all the lines once the loop has ended.
Chunked ==
    LET pieces == Pieces
        \* the lines written, and the places (manifest, line number) they
        \* stand at
        written == UNION {LineSetOf(pieces[c]) : c \in 1..Len(tmp_files)}
        places == UNION {{<<c, k>> : k \in 1..Len(pieces[c])} : c \in 1..Len(tmp_files)}
        all == LineSetOf(dl_lines)
    IN  /\ Len(tmp_files) <= 64
        /\ written \subseteq all
        /\ Cardinality(places) = Cardinality(written)
        /\ dlState \in {"joining", "finished"} => written = all

\* One worker thread for each temporary manifest.
OneWorkerPerChunk == threads = Len(tmp_files) /\ running <= threads

====
